---- MODULE Spec2Model ----
(***************************************************************************)
(* FlowGen: a linear flow of prompt steps (src/App.tsx), the step cards    *)
(* that drive it (src/components/StepCard.tsx) and the two remote image    *)
(* operations (geminiService).                                             *)
(*                                                                         *)
(* The store is the React state of App: steps, isProcessing, aspectRatio.  *)
(* A handler runs to its first await in one step (JavaScript runs to       *)
(* completion); the continuation after each await is a step of its own.    *)
(* A handler reads the values its closure captured when it was invoked,    *)
(* which are the values of the latest render; functional updates           *)
(* (setSteps(prev => ...)) read the store itself.  List positions are      *)
(* 1-based here and 0-based in the source.                                 *)
(***************************************************************************)
EXTENDS Integers, Sequences, FiniteSets, TLC

\* ---------------------------------------------------------------- bounds
\* One run of the application, driven through its rendered controls.
MaxIds == 3      \* identifiers uuidv4 hands out
MaxCalls == 4    \* remote generate and upscale calls issued
\* One run of the handlers invoked directly.
MaxApiIds == 2
MaxApiCalls == 3
\* Either run.
MaxWalks == 2    \* generateImages invocations suspended at once
MaxUps == 2      \* handleUpscale invocations suspended at once

\* ------------------------------------------------------------ FlowStatus
IDLE == "IDLE"
GENERATING == "GENERATING"
UPSCALING == "UPSCALING"
COMPLETED == "COMPLETED"
ERROR == "ERROR"

FlowStatus == {IDLE, GENERATING, UPSCALING, COMPLETED, ERROR}

AspectRatio == {"16:9", "9:16"}

Null == "null"              \* imageBase64: null
Undefined == "undefined"    \* an optional field that is absent

\* Texts typed into a prompt field, as sequences of characters (a new step
\* starts with the empty text).
Prompts == {<<" ">>, <<"a">>}

\* Images the remote operations return (non-empty strings).
GenImages == {"g1"}
UpImages == {"u1"}

\* Failures of the remote generate call, by the message of the error caught.
GenCauses == {"rate limited"}

\* Failures of the remote upscale call.
UpCauses == {"no key selected", "Requested entity was not found", "No upscaled image data found"}

UPSCALE_FAILED == "Upscale failed. Please try again."

StepIds == 1..MaxIds

VARIABLES steps, isProcessing, aspectRatio, nextId, walks, ups, nCalls, refused

vars == <<steps, isProcessing, aspectRatio, nextId, walks, ups, nCalls, refused>>

\* ------------------------------------------------------------- helpers
NewStep(id) ==
    [id |-> id, prompt |-> <<>>, status |-> IDLE, imageBase64 |-> Null,
     isUpscaled |-> Undefined, error |-> Undefined]

\* String.prototype.trim on a sequence of characters.
RECURSIVE TrimStart(_)
TrimStart(p) == IF p # <<>> /\ Head(p) = " " THEN TrimStart(Tail(p)) ELSE p

RECURSIVE TrimEnd(_)
TrimEnd(p) ==
    IF p # <<>> /\ p[Len(p)] = " " THEN TrimEnd(SubSeq(p, 1, Len(p) - 1)) ELSE p

Trim(p) == TrimEnd(TrimStart(p))

HasImage(s) == s.imageBase64 # Null

\* prev.map((s, idx) => idx === i ? f(s) : s)
MapIdx(list, i, f(_)) == [k \in DOMAIN list |-> IF k = i THEN f(list[k]) ELSE list[k]]

\* prev.map(s => s.id === id ? f(s) : s)
MapId(list, id, f(_)) == [k \in DOMAIN list |-> IF list[k].id = id THEN f(list[k]) ELSE list[k]]

\* prev.filter(s => s.id !== id)
FilterOut(list, id) == SelectSeq(list, LAMBDA s : s.id # id)

\* steps.find(s => s.id === id): the position of the step, 0 when none.
FindIdx(list, id) ==
    IF \E k \in DOMAIN list : list[k].id = id
    THEN CHOOSE k \in DOMAIN list : list[k].id = id /\ \A j \in 1..(k - 1) : list[j].id # id
    ELSE 0

RemoveAt(seq, k) == SubSeq(seq, 1, k - 1) \o SubSeq(seq, k + 1, Len(seq))

\* What the variable refused records: the handler that returned at its guard
\* in the latest operation, and its argument; NoRefusal after any other
\* operation.
Refusal(op, id) == [op |-> op, id |-> id]

NoRefusal == Refusal("none", 0)

Init ==
    /\ steps = <<NewStep(1)>>
    /\ isProcessing = FALSE
    /\ aspectRatio = "16:9"
    /\ nextId = 2
    /\ walks = <<>>
    /\ ups = <<>>
    /\ nCalls = 0
    /\ refused = NoRefusal

\* ---------------------------------------------------------- Step Store
AddStep ==
    /\ steps' = Append(steps, NewStep(nextId))
    /\ nextId' = nextId + 1
    /\ refused' = NoRefusal
    /\ UNCHANGED <<isProcessing, aspectRatio, walks, ups, nCalls>>

\* removeStep without its guard on the length of the list.
RemoveStepUnguarded(id) ==
    /\ steps' = FilterOut(steps, id)
    /\ refused' = NoRefusal
    /\ UNCHANGED <<isProcessing, aspectRatio, nextId, walks, ups, nCalls>>

\* if (steps.length <= 1) return; setSteps(prev => prev.filter(s => s.id !== id))
RemoveStep(id) ==
    /\ IF Len(steps) <= 1
       THEN /\ steps' = steps
            /\ refused' = Refusal("removeStep", id)
       ELSE /\ steps' = FilterOut(steps, id)
            /\ refused' = NoRefusal
    /\ UNCHANGED <<isProcessing, aspectRatio, nextId, walks, ups, nCalls>>

\* updatePrompt that also sends the step back to IDLE without its image.
UpdatePromptResets(id, newPrompt) ==
    /\ steps' = MapId(steps, id, LAMBDA s : [s EXCEPT !.prompt = newPrompt, !.status = IDLE,
                                                     !.imageBase64 = Null])
    /\ refused' = NoRefusal
    /\ UNCHANGED <<isProcessing, aspectRatio, nextId, walks, ups, nCalls>>

\* setSteps(prev => prev.map(s => s.id === id ? { ...s, prompt: newPrompt } : s))
UpdatePrompt(id, newPrompt) ==
    /\ steps' = MapId(steps, id, LAMBDA s : [s EXCEPT !.prompt = newPrompt])
    /\ refused' = NoRefusal
    /\ UNCHANGED <<isProcessing, aspectRatio, nextId, walks, ups, nCalls>>

SetAspectRatio(r) ==
    /\ aspectRatio' = r
    /\ refused' = NoRefusal
    /\ UNCHANGED <<steps, isProcessing, nextId, walks, ups, nCalls>>

\* ---------------------------------------------------- Flow Orchestrator
\* let currentSteps = [...steps]: the copy of the list the loop works on, with
\* the fields of each step the loop reads.
Copy(list) ==
    [k \in DOMAIN list |-> [id |-> list[k].id, prompt |-> list[k].prompt,
                            status |-> list[k].status, imageBase64 |-> list[k].imageBase64]]

\* The loop of generateImages over its copy of the list, from position i with
\* previousImage = prev, up to the first step it has to generate: the position
\* of that step (Len + 1 when the loop falls off the end) and the reference
\* image carried there.
RECURSIVE Scan(_, _, _)
Scan(currentSteps, i, prev) ==
    IF i > Len(currentSteps)
    THEN [i |-> i, previousImage |-> prev]
    ELSE LET step == currentSteps[i] IN
         IF Trim(step.prompt) = <<>>
         THEN Scan(currentSteps, i + 1, IF HasImage(step) THEN step.imageBase64 ELSE prev)
         ELSE IF HasImage(step) /\ step.status = COMPLETED
              THEN Scan(currentSteps, i + 1, step.imageBase64)
              ELSE [i |-> i, previousImage |-> prev]

\* The GENERATING mark that also drops the image of the step.
MarkGeneratingDropsImage(s) ==
    [s EXCEPT !.status = GENERATING, !.error = Undefined, !.imageBase64 = Null]

\* { ...s, status: GENERATING, error: undefined }
MarkGenerating(s) == [s EXCEPT !.status = GENERATING, !.error = Undefined]

\* The success write of generateImages without its reset of isUpscaled.
MarkGeneratedKeepFlag(s, img) == [s EXCEPT !.status = COMPLETED, !.imageBase64 = img]

\* { ...s, status: COMPLETED, imageBase64: generated, isUpscaled: false }
MarkGenerated(s, img) ==
    [s EXCEPT !.status = COMPLETED, !.imageBase64 = img, !.isUpscaled = "false"]

\* { ...s, status: ERROR, error: err.message }
MarkError(s, msg) == [s EXCEPT !.status = ERROR, !.error = msg]

\* The store position the walk writes the outcome of its step i to.
WritePos(w) == w.i

\* generateImages without its check of the flag.
BusyNever == FALSE

\* if (isProcessing) return;
Busy == isProcessing

\* throw new Error(error.message || "Failed to generate image")
GenerateErrorMessage(cause) == IF cause = "" THEN "Failed to generate image" ELSE cause

\* The step the outstanding generate call of walk w was issued for.
WalkStep(w) == w.currentSteps[w.i]

\* The loop reading the aspect ratio of the store at each call, not the one of
\* its closure.
AdvanceCurrentRatio(k, w, list, prev) ==
    LET r == Scan(w.currentSteps, w.i + 1, prev) IN
    IF r.i > Len(w.currentSteps)
    THEN /\ steps' = list
         /\ isProcessing' = FALSE
         /\ walks' = RemoveAt(walks, k)
         /\ nCalls' = nCalls
         /\ refused' = NoRefusal
    ELSE /\ nCalls' = nCalls + 1
         /\ steps' = MapIdx(list, r.i, MarkGenerating)
         /\ isProcessing' = isProcessing
         /\ walks' = [walks EXCEPT ![k] = [w EXCEPT !.i = r.i, !.previousImage = r.previousImage,
                                                     !.aspectRatio = aspectRatio]]
         /\ refused' = NoRefusal

\* From the position after the one just handled: mark the next step to
\* generate and suspend on its generate call, or leave the loop and clear the
\* flag.  list is the store after the writes made so far in this step.
Advance(k, w, list, prev) ==
    LET r == Scan(w.currentSteps, w.i + 1, prev) IN
    IF r.i > Len(w.currentSteps)
    THEN /\ steps' = list
         /\ isProcessing' = FALSE
         /\ walks' = RemoveAt(walks, k)
         /\ nCalls' = nCalls
         /\ refused' = NoRefusal
    ELSE /\ nCalls' = nCalls + 1
         /\ steps' = MapIdx(list, r.i, MarkGenerating)
         /\ isProcessing' = isProcessing
         /\ walks' = [walks EXCEPT ![k] = [w EXCEPT !.i = r.i, !.previousImage = r.previousImage]]
         /\ refused' = NoRefusal

GenerateImages ==
    /\ IF Busy
       THEN /\ refused' = Refusal("generateImages", 0)
            /\ UNCHANGED <<steps, isProcessing, walks, nCalls>>
       ELSE LET r == Scan(Copy(steps), 1, Null) IN
            IF r.i > Len(steps)
            THEN /\ isProcessing' = FALSE
                 /\ refused' = NoRefusal
                 /\ UNCHANGED <<steps, walks, nCalls>>
            ELSE /\ nCalls' = nCalls + 1
                 /\ isProcessing' = TRUE
                 /\ steps' = MapIdx(steps, r.i, MarkGenerating)
                 /\ walks' = Append(walks, [i |-> r.i, previousImage |-> r.previousImage,
                                            currentSteps |-> Copy(steps), aspectRatio |-> aspectRatio])
                 /\ refused' = NoRefusal
    /\ UNCHANGED <<aspectRatio, nextId, ups>>

\* generateFlowImage resolved with img.
GenerateResolved(k, img) ==
    /\ k \in DOMAIN walks
    /\ LET w == walks[k] IN
       Advance(k, w, MapIdx(steps, WritePos(w), LAMBDA s : MarkGenerated(s, img)), img)
    /\ UNCHANGED <<aspectRatio, nextId, ups>>

\* The failure path of generateImages without its finally block.
GenerateRejectedNoFinally(k, cause) ==
    /\ k \in DOMAIN walks
    /\ LET w == walks[k] IN
       /\ steps' = MapIdx(steps, WritePos(w), LAMBDA s : MarkError(s, GenerateErrorMessage(cause)))
       /\ refused' = NoRefusal
    /\ isProcessing' = isProcessing
    /\ walks' = RemoveAt(walks, k)
    /\ UNCHANGED <<aspectRatio, nextId, ups, nCalls>>

\* generateFlowImage rejected: mark the step, break, finally.
GenerateRejected(k, cause) ==
    /\ k \in DOMAIN walks
    /\ LET w == walks[k] IN
       /\ steps' = MapIdx(steps, WritePos(w), LAMBDA s : MarkError(s, GenerateErrorMessage(cause)))
       /\ refused' = NoRefusal
    /\ isProcessing' = FALSE
    /\ walks' = RemoveAt(walks, k)
    /\ UNCHANGED <<aspectRatio, nextId, ups, nCalls>>

\* --------------------------------------------------- Upscale Controller
\* The guard of handleUpscale without its check of the status.
UpscaleRefusedNoStatus(list, id) ==
    LET k == FindIdx(list, id) IN
    \/ k = 0
    \/ ~HasImage(list[k])

\* if (!step || !step.imageBase64 || step.status === UPSCALING) return;
UpscaleRefused(list, id) ==
    LET k == FindIdx(list, id) IN
    \/ k = 0
    \/ ~HasImage(list[k])
    \/ list[k].status = UPSCALING

\* The message of the error upscaleFlowImage throws.
UpscaleErrorMessage(cause) ==
    CASE cause = "no key selected" -> "API_KEY_REQUIRED"
      [] cause = "Requested entity was not found" -> "API_KEY_INVALID"
      [] OTHER -> cause

IsKeyError(msg) == msg = "API_KEY_REQUIRED" \/ msg = "API_KEY_INVALID"

\* const step = steps.find(...): the invocation keeps the step it found, as it
\* was when handleUpscale was invoked, and the aspect ratio of that render.
HandleUpscale(id) ==
    /\ IF UpscaleRefused(steps, id)
       THEN /\ refused' = Refusal("handleUpscale", id)
            /\ UNCHANGED <<steps, ups, nCalls>>
       ELSE /\ nCalls' = nCalls + 1
            /\ LET step == steps[FindIdx(steps, id)] IN
               ups' = Append(ups, [id |-> id, prompt |-> step.prompt,
                                   imageBase64 |-> step.imageBase64,
                                   error |-> step.error, isUpscaled |-> step.isUpscaled,
                                   aspectRatio |-> aspectRatio, pc |-> "upscaleFlowImage"])
            /\ steps' = MapId(steps, id, LAMBDA s : [s EXCEPT !.status = UPSCALING])
            /\ refused' = NoRefusal
    /\ UNCHANGED <<isProcessing, aspectRatio, nextId, walks>>

UpscaleResolved(k, img) ==
    /\ k \in DOMAIN ups
    /\ ups[k].pc = "upscaleFlowImage"
    /\ steps' = MapId(steps, ups[k].id,
                      LAMBDA s : [s EXCEPT !.status = COMPLETED, !.imageBase64 = img,
                                           !.isUpscaled = "true"])
    /\ ups' = RemoveAt(ups, k)
    /\ refused' = NoRefusal
    /\ UNCHANGED <<isProcessing, aspectRatio, nextId, walks, nCalls>>

\* The failure write of handleUpscale without its error message.
MarkUpscaleFailedSilently(s) == [s EXCEPT !.status = COMPLETED]

\* { ...s, status: COMPLETED, error: "Upscale failed. Please try again." }
MarkUpscaleFailed(s) == [s EXCEPT !.status = COMPLETED, !.error = UPSCALE_FAILED]

UpscaleRejected(k, cause) ==
    /\ k \in DOMAIN ups
    /\ ups[k].pc = "upscaleFlowImage"
    /\ IF IsKeyError(UpscaleErrorMessage(cause))
       THEN /\ ups' = [ups EXCEPT ![k].pc = "requestApiKeySelection"]
            /\ steps' = steps
            /\ refused' = NoRefusal
       ELSE /\ steps' = MapId(steps, ups[k].id, MarkUpscaleFailed)
            /\ ups' = RemoveAt(ups, k)
            /\ refused' = NoRefusal
    /\ UNCHANGED <<isProcessing, aspectRatio, nextId, walks, nCalls>>

\* The reset after key selection applied to every step, not to the step with
\* the id of the invocation.
KeySelectionResolvedAll(k) ==
    /\ k \in DOMAIN ups
    /\ ups[k].pc = "requestApiKeySelection"
    /\ steps' = [j \in DOMAIN steps |->
                    IF steps[j].status = UPSCALING THEN [steps[j] EXCEPT !.status = COMPLETED]
                    ELSE steps[j]]
    /\ ups' = RemoveAt(ups, k)
    /\ refused' = NoRefusal
    /\ UNCHANGED <<isProcessing, aspectRatio, nextId, walks, nCalls>>

\* await requestApiKeySelection() returned: reset the status.
KeySelectionResolved(k) ==
    /\ k \in DOMAIN ups
    /\ ups[k].pc = "requestApiKeySelection"
    /\ steps' = MapId(steps, ups[k].id, LAMBDA s : [s EXCEPT !.status = COMPLETED])
    /\ ups' = RemoveAt(ups, k)
    /\ refused' = NoRefusal
    /\ UNCHANGED <<isProcessing, aspectRatio, nextId, walks, nCalls>>

\* ------------------------------------------------- the rendered controls
Shown(id) == FindIdx(steps, id) # 0

Card(id) == steps[FindIdx(steps, id)]

\* StepCard: disabled={isGenerating || isUpscaling} on the textarea and on Delete.
CardLocked(id) == Card(id).status = GENERATING \/ Card(id).status = UPSCALING

\* StepCard: the "Upscale 2K" button is rendered.
UpscaleButton(id) ==
    /\ Card(id).status # GENERATING
    /\ HasImage(Card(id))
    /\ Card(id).status # UPSCALING
    /\ Card(id).isUpscaled # "true"

ClickGenerate == ~isProcessing /\ GenerateImages

PressEnter(id) == Shown(id) /\ ~CardLocked(id) /\ GenerateImages

ClickAdd == ~isProcessing /\ AddStep

ClickDelete(id) == Shown(id) /\ ~CardLocked(id) /\ RemoveStep(id)

ChangePrompt(id, text) == Shown(id) /\ ~CardLocked(id) /\ UpdatePrompt(id, text)

ClickUpscale(id) == Shown(id) /\ UpscaleButton(id) /\ HandleUpscale(id)

\* The part of a run explored: at most ids identifiers handed out, calls remote
\* calls issued, MaxWalks and MaxUps invocations suspended.
Within(ids, calls) ==
    /\ nextId <= ids + 1
    /\ nCalls <= calls
    /\ Len(walks) <= MaxWalks
    /\ Len(ups) <= MaxUps

InRun == Within(MaxIds, MaxCalls)

InApiRun == Within(MaxApiIds, MaxApiCalls)

\* The application as the user drives it through the rendered controls.
Next ==
    \/ ClickGenerate /\ InRun'
    \/ \E id \in StepIds : PressEnter(id) /\ InRun'
    \/ ClickAdd /\ InRun'
    \/ \E id \in StepIds : ClickDelete(id) /\ InRun'
    \/ \E id \in StepIds, text \in Prompts : ChangePrompt(id, text) /\ InRun'
    \/ \E id \in StepIds : ClickUpscale(id) /\ InRun'
    \/ \E r \in AspectRatio : SetAspectRatio(r) /\ InRun'
    \/ \E k \in DOMAIN walks, img \in GenImages : GenerateResolved(k, img) /\ InRun'
    \/ \E k \in DOMAIN walks, cause \in GenCauses : GenerateRejected(k, cause) /\ InRun'
    \/ \E k \in DOMAIN ups, img \in UpImages : UpscaleResolved(k, img) /\ InRun'
    \/ \E k \in DOMAIN ups, cause \in UpCauses : UpscaleRejected(k, cause) /\ InRun'
    \/ \E k \in DOMAIN ups : KeySelectionResolved(k) /\ InRun'

Spec == Init /\ [][Next]_vars

\* The handlers App hands to its controls (addStep, onDelete, onUpdatePrompt,
\* onEnterPress, onUpscale) invoked directly, with any argument, whatever is
\* rendered.
\* The arguments the handlers are invoked with.
ApiIds == 1..MaxApiIds

ApiTexts == {<<>>, <<"a">>}

NextApi ==
    \/ GenerateImages /\ InApiRun'
    \/ AddStep /\ InApiRun'
    \/ \E id \in ApiIds : RemoveStep(id) /\ InApiRun'
    \/ \E id \in ApiIds, text \in ApiTexts : UpdatePrompt(id, text) /\ InApiRun'
    \/ \E id \in ApiIds : HandleUpscale(id) /\ InApiRun'
    \/ \E k \in DOMAIN walks, img \in GenImages : GenerateResolved(k, img) /\ InApiRun'
    \/ \E k \in DOMAIN walks, cause \in GenCauses : GenerateRejected(k, cause) /\ InApiRun'
    \/ \E k \in DOMAIN ups, img \in UpImages : UpscaleResolved(k, img) /\ InApiRun'
    \/ \E k \in DOMAIN ups, cause \in UpCauses : UpscaleRejected(k, cause) /\ InApiRun'
    \/ \E k \in DOMAIN ups : KeySelectionResolved(k) /\ InApiRun'

SpecApi == Init /\ [][NextApi]_vars

\* The promise of an outstanding generateFlowImage call settles.
GenerateReturns ==
    \/ \E k \in DOMAIN walks, img \in GenImages : GenerateResolved(k, img) /\ InApiRun'
    \/ \E k \in DOMAIN walks, cause \in GenCauses : GenerateRejected(k, cause) /\ InApiRun'

\* The handlers invoked directly, every generate call returning or failing in
\* the end.
SpecApiFair == SpecApi /\ WF_vars(GenerateReturns)

\* ------------------------------------------------------------ the claims
\* The step with identifier id holds a position in list.
InList(list, id) == FindIdx(list, id) # 0

\* The step with identifier id in list.
StepOf(list, id) == list[FindIdx(list, id)]

\* The status, image, error and isUpscaled of a step.
Outcome(s) == <<s.status, s.imageBase64, s.error, s.isUpscaled>>

Blank(s) == Trim(s.prompt) = <<>>

\* The image held by the nearest step before position pos that holds one.
NearestImage(list, pos) ==
    LET holders == {j \in 1..(pos - 1) : HasImage(list[j])} IN
    IF holders = {} THEN Null
    ELSE list[CHOOSE j \in holders : \A h \in holders : h <= j].imageBase64

\* This step is a step of a walk: its start or the return of its generate call.
WalkActs ==
    \/ GenerateImages
    \/ \E k \in DOMAIN walks, img \in GenImages : GenerateResolved(k, img)
    \/ \E k \in DOMAIN walks, cause \in GenCauses : GenerateRejected(k, cause)

\* This step issues a generate call (handleUpscale, the other caller, adds to ups).
GenerateIssued == nCalls' = nCalls + 1 /\ ups' = ups /\ Len(walks') = 1

\* The step the generate call issued in this step is for, as the walk knows it.
IssuedFor == WalkStep(walks'[1])

\* C1: the flow always holds at least one step, and removeStep invoked on a
\* flow of exactly one step leaves the list as it is.
C1_AtLeastOneStep ==
    /\ Len(steps) >= 1
    /\ [][/\ Len(steps') >= 1
          /\ \A id \in StepIds : (Len(steps) = 1 /\ RemoveStep(id)) => steps' = steps]_vars

\* removeStep has been invoked on the only step, and refused.
C1_Witness == refused.op = "removeStep" /\ Len(steps) = 1 /\ steps[1].id = refused.id

\* C2: at most one walk is suspended on a generate call at any time, and
\* generateImages invoked while a walk is in progress issues no call and
\* changes no step.
C2_SingleFlight ==
    /\ Len(walks) <= 1
    /\ [][/\ Len(walks') <= 1
          /\ (Len(walks) >= 1 /\ GenerateImages)
                => (steps' = steps /\ walks' = walks /\ nCalls' = nCalls)]_vars

\* generateImages has been invoked during a walk, and refused.
C2_Witness ==
    /\ refused.op = "generateImages"
    /\ Len(walks) = 1
    /\ \E k \in DOMAIN steps : steps[k].status = GENERATING

\* C3: when the generate call of a walk returns and the walk issues its next
\* call, that call is for a later position of the list, and the step whose call
\* returned is COMPLETED in the store with the returned image.
C3_InOrderAfterCommit ==
    [][\A img \in GenImages :
        (Len(walks) = 1 /\ GenerateResolved(1, img) /\ GenerateIssued)
        => LET done == WalkStep(walks[1]) IN
           /\ walks'[1].i > walks[1].i
           /\ InList(steps', done.id)
                => /\ StepOf(steps', done.id).status = COMPLETED
                   /\ StepOf(steps', done.id).imageBase64 = img]_vars

\* C4: when the generate call of a walk fails, the walk issues no further call
\* and every step after the step of the failed call keeps its status, image,
\* error and isUpscaled.
C4_FailureStopsWalk ==
    [][\A cause \in GenCauses :
        (Len(walks) = 1 /\ GenerateRejected(1, cause))
        => LET failed == WalkStep(walks[1]) IN
           /\ nCalls' = nCalls
           /\ walks' = <<>>
           /\ InList(steps, failed.id)
                => \A j \in (FindIdx(steps, failed.id) + 1)..Len(steps) :
                       Outcome(steps'[j]) = Outcome(steps[j])]_vars

\* C5: a walk never marks GENERATING, issues a generate call for, or overwrites
\* the image of a step that is COMPLETED with an image in the store.
C5_NoRegeneration ==
    [][\A id \in StepIds :
        (/\ InList(steps, id) /\ InList(steps', id)
         /\ StepOf(steps, id).status = COMPLETED
         /\ HasImage(StepOf(steps, id))
         /\ WalkActs)
        => /\ StepOf(steps', id).status # GENERATING
           /\ StepOf(steps', id).imageBase64 = StepOf(steps, id).imageBase64
           /\ ~(GenerateIssued /\ IssuedFor.id = id)]_vars

\* C6: a generate call receives as reference the image held, in the store and
\* when the call is issued, by the nearest step before the step of the call
\* that holds one, and no reference when no step before it holds an image.
C6_ReferenceIsNearestImage ==
    [][(GenerateIssued /\ InList(steps', IssuedFor.id))
        => walks'[1].previousImage = NearestImage(steps', FindIdx(steps', IssuedFor.id))]_vars

\* C7: a step whose prompt is empty or blank is skipped by a walk: the walk
\* issues no generate call for it and changes none of its fields, and the
\* reference carried past it is its image when it holds one, and otherwise the
\* reference carried into it.
C7_BlankStepSkipped ==
    [][/\ \A id \in StepIds :
            (/\ InList(steps, id) /\ InList(steps', id)
             /\ Blank(StepOf(steps, id))
             /\ WalkActs)
            => /\ StepOf(steps', id) = StepOf(steps, id)
               /\ ~(GenerateIssued /\ IssuedFor.id = id)
       /\ (GenerateIssued /\ InList(steps', IssuedFor.id))
            => LET pos == FindIdx(steps', IssuedFor.id) IN
               (pos > 1 /\ Blank(steps'[pos - 1]))
                 => walks'[1].previousImage = NearestImage(steps', pos)]_vars

\* C8: handleUpscale on a step that is not in the store, holds no image or is
\* UPSCALING in the store issues no upscale call and changes no step.
C8_UpscaleIgnored ==
    [][\A id \in StepIds :
        (/\ HandleUpscale(id)
         /\ \/ ~InList(steps, id)
            \/ ~HasImage(StepOf(steps, id))
            \/ StepOf(steps, id).status = UPSCALING)
        => (steps' = steps /\ ups' = ups /\ nCalls' = nCalls)]_vars

\* handleUpscale has been invoked, and refused, on a step that is UPSCALING
\* with its first upscale call still outstanding.
C8_Witness ==
    /\ refused.op = "handleUpscale"
    /\ InList(steps, refused.id)
    /\ StepOf(steps, refused.id).status = UPSCALING
    /\ \E k \in DOMAIN ups : ups[k].id = refused.id /\ ups[k].pc = "upscaleFlowImage"

\* C9: a step becomes UPSCALING only from COMPLETED, and an UPSCALING step
\* next changes its status only to COMPLETED.
C9_UpscalingEdges ==
    [][\A id \in StepIds :
        (InList(steps, id) /\ InList(steps', id))
        => LET before == StepOf(steps, id).status
               after == StepOf(steps', id).status IN
           /\ (after = UPSCALING /\ before # UPSCALING) => before = COMPLETED
           /\ (before = UPSCALING /\ after # UPSCALING) => after = COMPLETED]_vars

\* C10: a step becomes GENERATING only from IDLE or ERROR, a GENERATING step
\* next changes its status only to COMPLETED or ERROR, and no step goes from
\* IDLE to COMPLETED.
C10_GeneratingEdges ==
    [][\A id \in StepIds :
        (InList(steps, id) /\ InList(steps', id))
        => LET before == StepOf(steps, id).status
               after == StepOf(steps', id).status IN
           /\ (after = GENERATING /\ before # GENERATING) => before \in {IDLE, ERROR}
           /\ (before = GENERATING /\ after # GENERATING) => after \in {COMPLETED, ERROR}
           /\ ~(before = IDLE /\ after = COMPLETED)]_vars

\* C11: when an upscale call fails for want of a valid key (API_KEY_REQUIRED or
\* API_KEY_INVALID), key selection is requested with no step changed and no
\* call issued, and when it returns the step of the call is COMPLETED with the
\* image, error and isUpscaled it had when handleUpscale was invoked, and no
\* upscale call is issued again.
C11_KeyFailureRestores ==
    [][\A k \in DOMAIN ups :
        /\ \A cause \in UpCauses :
              (UpscaleRejected(k, cause) /\ IsKeyError(UpscaleErrorMessage(cause)))
              => /\ ups'[k].pc = "requestApiKeySelection"
                 /\ steps' = steps
                 /\ nCalls' = nCalls
        /\ (KeySelectionResolved(k) /\ InList(steps, ups[k].id))
              => LET s == StepOf(steps', ups[k].id) IN
                 /\ s.status = COMPLETED
                 /\ s.imageBase64 = ups[k].imageBase64
                 /\ s.error = ups[k].error
                 /\ s.isUpscaled = ups[k].isUpscaled
                 /\ nCalls' = nCalls
                 /\ Len(ups') = Len(ups) - 1]_vars

\* Failures of the upscale call other than the two for want of a valid key.
OtherUpCauses ==
    {cause \in UpCauses : UpscaleErrorMessage(cause) \notin {"API_KEY_REQUIRED", "API_KEY_INVALID"}}

\* C12: when an upscale call fails for any other reason, the step of the call
\* becomes COMPLETED with its image and isUpscaled as they were, and its error
\* is the fixed message, which is not the message of the failure.
C12_UpscaleFailureGeneric ==
    [][\A k \in DOMAIN ups : \A cause \in OtherUpCauses :
        (UpscaleRejected(k, cause) /\ InList(steps, ups[k].id))
        => LET before == StepOf(steps, ups[k].id)
               after == StepOf(steps', ups[k].id) IN
           /\ after.status = COMPLETED
           /\ after.imageBase64 = before.imageBase64
           /\ after.isUpscaled = before.isUpscaled
           /\ after.error = UPSCALE_FAILED
           /\ after.error # UpscaleErrorMessage(cause)]_vars

\* An upscale call has failed for another reason: its step is COMPLETED with
\* the image it had and the fixed message.
C12_Witness ==
    /\ ups = <<>>
    /\ nCalls >= 2
    /\ \E k \in DOMAIN steps :
          /\ steps[k].status = COMPLETED
          /\ steps[k].imageBase64 \in GenImages
          /\ steps[k].isUpscaled = "false"
          /\ steps[k].error = UPSCALE_FAILED

\* C13: when the generate call of a walk returns an image, the step the call was
\* issued for is COMPLETED in the store with that image and isUpscaled false.
C13_GeneratedStepCompleted ==
    [][\A img \in GenImages :
        (Len(walks) = 1 /\ GenerateResolved(1, img) /\ InList(steps, WalkStep(walks[1]).id))
        => LET s == StepOf(steps', WalkStep(walks[1]).id) IN
           /\ s.status = COMPLETED
           /\ s.imageBase64 = img
           /\ s.isUpscaled = "false"]_vars

\* C14: in every state a step has isUpscaled true only if the image it holds
\* was returned by an upscale call, and a step holding an image returned by a
\* generate call has isUpscaled false, in whatever order the results of a
\* generate call and an upscale call for the same step arrive.
C14_UpscaledOnlyByUpscale ==
    \A k \in DOMAIN steps :
        /\ steps[k].isUpscaled = "true" => steps[k].imageBase64 \in UpImages
        /\ steps[k].imageBase64 \in GenImages => steps[k].isUpscaled = "false"

\* A step holds the result of its upscale call, isUpscaled true, while the
\* generate call a walk issued for the same step is still outstanding.
C14_Witness ==
    \E k \in DOMAIN steps :
        /\ steps[k].isUpscaled = "true"
        /\ steps[k].imageBase64 \in UpImages
        /\ \E w \in DOMAIN walks : WalkStep(walks[w]).id = steps[k].id /\ walks[w].i = k

\* C15: provided every generate call returns or fails in the end, whenever the
\* flag isProcessing is set it is cleared later with no walk left suspended, and
\* generateImages invoked with the flag clear is not refused.
C15_FlagCleared ==
    /\ isProcessing ~> (~isProcessing /\ walks = <<>>)
    /\ [][(~isProcessing /\ GenerateImages) => refused'.op # "generateImages"]_vars

\* A walk that issued generate calls has ended and the flag is clear.
C15_Witness ==
    /\ ~isProcessing
    /\ walks = <<>>
    /\ nCalls >= 1
    /\ \E k \in DOMAIN steps : steps[k].status \in {COMPLETED, ERROR}

\* The walk passes over step s without a call: s is blank, or COMPLETED with an
\* image.
PassedOver(s) == Blank(s) \/ (HasImage(s) /\ s.status = COMPLETED)

\* C16: while the generate call a walk issued for a step it marked GENERATING
\* is outstanding, that step has no error in the store; and generateImages,
\* when accepted, marks GENERATING with no error the first step it does not
\* pass over, a step in ERROR with a prompt included.
C16_ErrorClearedByAttempt ==
    /\ [](\A w \in DOMAIN walks :
            (walks[w].i \in DOMAIN steps /\ steps[walks[w].i].id = WalkStep(walks[w]).id)
            => steps[walks[w].i].error = Undefined)
    /\ [][\A p \in DOMAIN steps :
            (/\ ~isProcessing /\ GenerateImages
             /\ ~PassedOver(steps[p])
             /\ \A j \in 1..(p - 1) : PassedOver(steps[j]))
            => (steps'[p].status = GENERATING /\ steps'[p].error = Undefined)]_vars

\* Every step but the one with identifier id is as it was, at the position it
\* had.
OthersKept(id) ==
    /\ Len(steps') = Len(steps)
    /\ \A j \in DOMAIN steps :
          /\ steps'[j].id = steps[j].id
          /\ steps[j].id # id => steps'[j] = steps[j]

\* Every suspended handleUpscale invocation but number k is as it was.
OtherUpsKept(k) ==
    \A j \in DOMAIN ups : j # k => ups[j] = (IF Len(ups') = Len(ups) \/ j < k THEN ups'[j] ELSE ups'[j - 1])

\* C17: the start, the success and the failure of a handleUpscale invocation
\* change the step with its id only and leave every other suspended invocation
\* as it was, and what they write to that step depends on that step and on the
\* result of its own call only: COMPLETED with the returned image and
\* isUpscaled true on success, COMPLETED with the image and isUpscaled of the
\* store on failure.
C17_UpscalesIndependent ==
    [][/\ \A id \in StepIds :
            (HandleUpscale(id) /\ ~UpscaleRefused(steps, id))
            => /\ OthersKept(id)
               /\ SubSeq(ups', 1, Len(ups)) = ups
               /\ StepOf(steps', id) = [StepOf(steps, id) EXCEPT !.status = UPSCALING]
       /\ \A k \in DOMAIN ups :
            LET id == ups[k].id
                before == StepOf(steps, id)
                after == StepOf(steps', id) IN
            /\ \A img \in UpImages :
                  UpscaleResolved(k, img)
                  => /\ OthersKept(id) /\ OtherUpsKept(k)
                     /\ InList(steps, id)
                          => <<after.status, after.imageBase64, after.isUpscaled>>
                               = <<COMPLETED, img, "true">>
            /\ \A cause \in UpCauses :
                  UpscaleRejected(k, cause)
                  => /\ OthersKept(id) /\ OtherUpsKept(k)
                     /\ InList(steps, id)
                          => /\ after.status = (IF cause \in OtherUpCauses THEN COMPLETED
                                                ELSE before.status)
                             /\ after.imageBase64 = before.imageBase64
                             /\ after.isUpscaled = before.isUpscaled
            /\ KeySelectionResolved(k)
                  => /\ OthersKept(id) /\ OtherUpsKept(k)
                     /\ InList(steps, id)
                          => <<after.status, after.imageBase64, after.isUpscaled>>
                               = <<COMPLETED, before.imageBase64, before.isUpscaled>>]_vars

\* Two handleUpscale invocations on two different steps are suspended at once,
\* the call of one having failed for want of a key, the call of the other
\* outstanding.
C17_Witness ==
    \E j, k \in DOMAIN ups :
        /\ ups[j].id # ups[k].id
        /\ ups[j].pc = "requestApiKeySelection"
        /\ ups[k].pc = "upscaleFlowImage"
        /\ InList(steps, ups[j].id) /\ StepOf(steps, ups[j].id).status = UPSCALING
        /\ InList(steps, ups[k].id) /\ StepOf(steps, ups[k].id).status = UPSCALING

\* This step issues an upscale call.
UpscaleIssued == nCalls' = nCalls + 1 /\ Len(ups') = Len(ups) + 1

\* C18 as stated: every generate call and every upscale call is issued with the
\* aspect ratio the store holds when the call is issued.
C18_CallUsesCurrentRatio ==
    [][/\ GenerateIssued => walks'[1].aspectRatio = aspectRatio
       /\ UpscaleIssued => ups'[Len(ups')].aspectRatio = aspectRatio]_vars

\* C18, amended: an upscale call is issued with the aspect ratio the store
\* holds when it is issued, and every generate call of a walk is issued with
\* the aspect ratio the store held when generateImages was invoked, whatever
\* the store holds when the call is issued.
C18_WalkKeepsItsRatio ==
    [][/\ (GenerateIssued /\ walks = <<>>) => walks'[1].aspectRatio = aspectRatio
       /\ (GenerateIssued /\ walks # <<>>) => walks'[1].aspectRatio = walks[1].aspectRatio
       /\ UpscaleIssued => ups'[Len(ups')].aspectRatio = aspectRatio]_vars

\* A walk that has completed its first step is suspended on a later generate
\* call made with an aspect ratio that is not the one of the store.
C18_Witness ==
    /\ Len(walks) = 1
    /\ walks[1].aspectRatio # aspectRatio
    /\ walks[1].i >= 2
    /\ \E j \in 1..(walks[1].i - 1) :
          j \in DOMAIN steps /\ steps[j].status = COMPLETED /\ ~Blank(steps[j])

\* C19: updatePrompt(id, text) makes text, as given, the prompt of the step
\* with that id, and leaves the status, image, error and isUpscaled of that
\* step, every other step and the order of the list as they were.
C19_UpdatePromptFrame ==
    [][\A id \in StepIds, text \in ApiTexts \cup Prompts :
        UpdatePrompt(id, text)
        => /\ Len(steps') = Len(steps)
           /\ \A j \in DOMAIN steps :
                 /\ steps'[j].id = steps[j].id
                 /\ Outcome(steps'[j]) = Outcome(steps[j])
                 /\ steps'[j].prompt = (IF steps[j].id = id THEN text ELSE steps[j].prompt)]_vars

\* The prompt of a step that is COMPLETED with an image has been replaced by
\* the empty text.
C19_Witness ==
    /\ refused = NoRefusal
    /\ \E j \in DOMAIN steps :
          /\ steps[j].status = COMPLETED
          /\ HasImage(steps[j])
          /\ steps[j].prompt = <<>>

\* C20: whenever no walk is in progress and no handleUpscale invocation is
\* suspended, every step is IDLE, COMPLETED or ERROR.
C20_NoStepLeftBusy ==
    (~isProcessing /\ walks = <<>> /\ ups = <<>>)
    => \A k \in DOMAIN steps : steps[k].status \in {IDLE, COMPLETED, ERROR}

\* The step at position j of the store is changed by this step.
Changed(j) == steps'[j] # steps[j]

\* C21: the GENERATING mark, the image and the error message of a generate
\* call are written to the step, found by its identifier, that the call was
\* issued for: a step of a walk changes no other step, the step of a call that
\* returned holds its image, the step of a call that failed holds its message,
\* and the step of a call just issued is GENERATING.
C21_WritesToStepOfCall ==
    [][/\ WalkActs => Len(steps') = Len(steps)
       /\ (GenerateIssued /\ InList(steps', IssuedFor.id))
            => StepOf(steps', IssuedFor.id).status = GENERATING
       /\ (walks = <<>> /\ GenerateImages)
            => \A j \in DOMAIN steps :
                 Changed(j) => (GenerateIssued /\ steps[j].id = IssuedFor.id)
       /\ \A img \in GenImages :
            (Len(walks) = 1 /\ GenerateResolved(1, img))
            => LET done == WalkStep(walks[1]).id IN
               /\ \A j \in DOMAIN steps :
                     Changed(j) => \/ steps[j].id = done
                                   \/ GenerateIssued /\ steps[j].id = IssuedFor.id
               /\ InList(steps, done) => StepOf(steps', done).imageBase64 = img
       /\ \A cause \in GenCauses :
            (Len(walks) = 1 /\ GenerateRejected(1, cause))
            => LET failed == WalkStep(walks[1]).id IN
               /\ \A j \in DOMAIN steps : Changed(j) => steps[j].id = failed
               /\ InList(steps, failed)
                    => StepOf(steps', failed).error = GenerateErrorMessage(cause)]_vars

\* Every step that is COMPLETED or UPSCALING holds an image.
DoneHoldsImage(list) ==
    \A k \in DOMAIN list : list[k].status \in {COMPLETED, UPSCALING} => HasImage(list[k])

\* C22: in every state a step that is COMPLETED or UPSCALING holds an image,
\* and no operation leaves a step that held an image without one.
C22_ImageKept ==
    /\ DoneHoldsImage(steps)
    /\ [][/\ DoneHoldsImage(steps')
          /\ \A id \in StepIds :
                (InList(steps, id) /\ InList(steps', id) /\ HasImage(StepOf(steps, id)))
                => HasImage(StepOf(steps', id))]_vars

\* A step whose second generation failed is in ERROR and still holds the image
\* of the first.
C22_Witness ==
    \E k \in DOMAIN steps :
        /\ steps[k].status = ERROR
        /\ steps[k].error \in {GenerateErrorMessage(cause) : cause \in GenCauses}
        /\ HasImage(steps[k])

\* The positions of its copy that walk w leaves behind without a call in this
\* step: those after its current one, up to the one it issues its next call
\* for, or up to the end when it ends.
LeftBehind(w) ==
    {j \in DOMAIN w.currentSteps :
        /\ j > w.i
        /\ walks' # <<>> => j < walks'[1].i}

\* C23: when the generate call of a walk returns and the walk moves on, the
\* step it issues its next call for is, in the store, neither blank nor
\* COMPLETED with an image, and the prompt sent is the prompt the store holds
\* for it; and every step it leaves behind without a call is, in the store,
\* blank or COMPLETED with an image.
C23_WalkReadsTheStore ==
    [][\A img \in GenImages :
        (Len(walks) = 1 /\ GenerateResolved(1, img))
        => /\ (GenerateIssued /\ InList(steps, IssuedFor.id))
                => /\ ~PassedOver(StepOf(steps, IssuedFor.id))
                   /\ IssuedFor.prompt = StepOf(steps, IssuedFor.id).prompt
           /\ \A j \in LeftBehind(walks[1]) :
                LET id == walks[1].currentSteps[j].id IN
                InList(steps, id) => PassedOver(StepOf(steps, id))]_vars
====
